---- MODULE Spec2Model ----
(***************************************************************************)
(* Model of the Utter Linux client (src/linux-client/utter_client.py):     *)
(* the UtterClient object, its connect / receive / reconnect loop, the     *)
(* message dispatch of handle_message and the typing invocation.           *)
(*                                                                         *)
(* Strings that the code treats character by character (the text that is   *)
(* typed) are sequences of small integers; the character 0 stands for '.'. *)
(* Strings that the code only assigns and shows are TLA+ strings.          *)
(***************************************************************************)
EXTENDS Integers, Sequences, FiniteSets, TLC

(* ---------------------------- bounds ----------------------------------- *)
MaxAttempts == 3      \* connection attempts explored
MaxMsgs == 2          \* text frames explored over the whole run
MaxSent == 2          \* messages sent on one channel
MaxClientId == 2      \* distinct client identifiers the peer may assign
MaxExtra == 1         \* longest content is TruncLimit + MaxExtra characters

(* ------------------------ program constants ---------------------------- *)
None == 0                 \* Python's None for client_id
TruncLimit == 50          \* text[:50]
ErrLimit == 80            \* error_str[:80]
reconnect_delay == 5      \* reconnect_delay = 5
Dot == 0                  \* the character '.'

Ellipsis == <<Dot, Dot, Dot>>

ClientIds == 1..MaxClientId

Mk(n) == [i \in 1..n |-> i % 3]

ContentLens == {TruncLimit, TruncLimit + MaxExtra}

Contents == {Mk(n) : n \in ContentLens}

(* an error string: a fixed text, or (line 214) a detail of a given length *)
Err(text) == [text |-> text, detail |-> 0]

NoError == Err("")

Min(a, b) == IF a < b THEN a ELSE b

(* --------------------------- state ------------------------------------- *)
VARIABLES
    use_ydotool,          \* self.use_ydotool
    ws,                   \* self.ws is set (a channel is held)
    client_id,            \* self.client_id
    status,               \* self.status
    connection_attempts,  \* self.connection_attempts
    messages_received,    \* self.messages_received
    last_text,            \* self.last_text
    last_error,           \* self.last_error
    tool_status,          \* self.tool_status
    pc,                   \* where the control path is
    remaining,            \* loop variable of the countdown
    sent,                 \* messages sent on the current channel
    type_calls,           \* calls of subprocess.run by simulate_typing
    last_argv,            \* argument vector of the latest of them
    connected_seen,       \* a connected frame arrived on the current channel
    ticks,                \* one-second sleeps finished since connect returned
    shown,                \* what the last live.update displayed
    last                  \* the last step taken and its inputs

vars == <<use_ydotool, ws, client_id, status, connection_attempts,
          messages_received, last_text, last_error, tool_status, pc,
          remaining, sent, type_calls, last_argv, connected_seen, ticks,
          shown, last>>

(* the object and the two logs, as one record the handlers transform *)
Self == [ws |-> ws, client_id |-> client_id, status |-> status,
         connection_attempts |-> connection_attempts,
         messages_received |-> messages_received,
         last_text |-> last_text, last_error |-> last_error,
         sent |-> sent, type_calls |-> type_calls, last_argv |-> last_argv,
         raised |-> "none"]

ReconnectLabels == <<"Reconnecting in 1s...", "Reconnecting in 2s...",
                     "Reconnecting in 3s...", "Reconnecting in 4s...",
                     "Reconnecting in 5s...">>

generate_display(st, cid) == [status |-> st, client_id |-> cid]

(* the record kept in last: the step, and for a received frame its payload  *)
(* kind, type, fields and what the typing or the send did                   *)
Step(op) == [op |-> op, kind |-> "", type |-> "", id |-> None, text |-> <<>>,
             outcome |-> "", wellformed |-> FALSE]

(* --------------------------- frames ------------------------------------ *)
(* an inbound frame: payload kind, and for a JSON object its fields        *)
Frame(kind, type, hasId, id, hasContent, content) ==
    [kind |-> kind, type |-> type, hasId |-> hasId, clientId |-> id,
     hasContent |-> hasContent, content |-> content]

ConnectedFrames == {Frame("object", "connected", TRUE, i, FALSE, <<>>) : i \in ClientIds}

ConnectedNoIdFrame == Frame("object", "connected", FALSE, None, FALSE, <<>>)

RegisteredFrame == Frame("object", "registered", FALSE, None, FALSE, <<>>)

TextFrames == {Frame("object", "text", FALSE, None, TRUE, c) : c \in Contents}

TextNoContentFrame == Frame("object", "text", FALSE, None, FALSE, <<>>)

PongFrame == Frame("object", "pong", FALSE, None, FALSE, <<>>)

UnknownFrame == Frame("object", "foo", FALSE, None, FALSE, <<>>)

InvalidJsonFrame == Frame("invalid_json", "", FALSE, None, FALSE, <<>>)

UndecodableFrame == Frame("undecodable", "", FALSE, None, FALSE, <<>>)

NonObjectFrame == Frame("non_object", "", FALSE, None, FALSE, <<>>)

Frames == ConnectedFrames \cup TextFrames \cup
          {ConnectedNoIdFrame, RegisteredFrame, TextNoContentFrame, PongFrame,
           UnknownFrame, InvalidJsonFrame, UndecodableFrame, NonObjectFrame}

TypingOutcomes == {"ok", "nonzero", "missing", "other", "interrupt"}

RegisterMsg == [type |-> "register", clientType |-> "linux"]

(* ----------------------- the handlers ---------------------------------- *)
(* Truncate with the marker added from 50 characters on *)
Truncate_marker_at_limit(text) ==
    SubSeq(text, 1, Min(Len(text), TruncLimit)) \o
        (IF Len(text) >= TruncLimit THEN Ellipsis ELSE <<>>)

(* text[:50] + ("..." if len(text) > 50 else "") *)
Truncate(text) ==
    SubSeq(text, 1, Min(Len(text), TruncLimit)) \o
        (IF Len(text) > TruncLimit THEN Ellipsis ELSE <<>>)

NoArgv == [tool |-> "", pre |-> <<>>, text |-> <<>>]

(* the argument vector handed to subprocess.run *)
TypingArgv(ydotool, text) ==
    IF ydotool
    THEN [tool |-> "ydotool", pre |-> <<"type">>, text |-> text]
    ELSE [tool |-> "xdotool", pre |-> <<"type", "--">>, text |-> text]

(* simulate_typing handing the tool the truncated text *)
simulate_typing_truncated_argument(self, ydotool, text, tout) ==
    LET ran == [self EXCEPT !.type_calls = @ + 1,
                            !.last_argv = TypingArgv(ydotool, Truncate(text))]
    IN  CASE tout = "ok" -> [ran EXCEPT !.last_text = Truncate(text)]
          [] tout = "nonzero" -> [ran EXCEPT !.last_error = Err("Typing error")]
          [] tout = "interrupt" -> [ran EXCEPT !.raised = "KeyboardInterrupt"]
          [] OTHER -> [ran EXCEPT !.last_error = Err("Unexpected error")]

(* simulate_typing recording the text before the tool has succeeded *)
simulate_typing_failure_sets_text(self, ydotool, text, tout) ==
    LET ran == [self EXCEPT !.type_calls = @ + 1,
                            !.last_argv = TypingArgv(ydotool, text),
                            !.last_text = Truncate(text)]
    IN  CASE tout = "ok" -> ran
          [] tout = "nonzero" -> [ran EXCEPT !.last_error = Err("Typing error")]
          [] tout = "interrupt" -> [ran EXCEPT !.raised = "KeyboardInterrupt"]
          [] OTHER -> [ran EXCEPT !.last_error = Err("Unexpected error")]

(* simulate_typing starting the tool without waiting for it: the call is not *)
(* made by the time the handler returns                                       *)
simulate_typing_in_background(self, ydotool, text, tout) ==
    [self EXCEPT !.last_text = Truncate(text)]

(* simulate_typing: tout is what subprocess.run does *)
simulate_typing(self, ydotool, text, tout) ==
    LET ran == [self EXCEPT !.type_calls = @ + 1,
                            !.last_argv = TypingArgv(ydotool, text)]
    IN  CASE tout = "ok" -> [ran EXCEPT !.last_text = Truncate(text)]
          [] tout = "nonzero" -> [ran EXCEPT !.last_error = Err("Typing error")]
          [] tout = "interrupt" -> [ran EXCEPT !.raised = "KeyboardInterrupt"]
          [] OTHER -> [ran EXCEPT !.last_error = Err("Unexpected error")]

(* send_message: sok is whether ws.send returns *)
send_message(self, message, sok) ==
    IF self.ws
    THEN IF sok
         THEN [self EXCEPT !.sent = Append(@, message)]
         ELSE [self EXCEPT !.last_error = Err("Send error")]
    ELSE self

(* handle_message reporting an unrecognised type as an error *)
handle_message_unknown_is_error(self, ydotool, message, tout, sok) ==
    IF message.type = "connected"
    THEN send_message([self EXCEPT
                          !.client_id = IF message.hasId THEN message.clientId ELSE None,
                          !.status = "Connected"],
                      RegisterMsg, sok)
    ELSE IF message.type = "registered"
    THEN [self EXCEPT !.status = "Registered - Ready"]
    ELSE IF message.type = "text"
    THEN simulate_typing([self EXCEPT !.messages_received = @ + 1], ydotool,
                         IF message.hasContent THEN message.content ELSE <<>>,
                         tout)
    ELSE IF message.type = "pong"
    THEN self
    ELSE [self EXCEPT !.last_error = Err("Unknown message type")]

(* handle_message, for a message that is a JSON object *)
handle_message(self, ydotool, message, tout, sok) ==
    IF message.type = "connected"
    THEN send_message([self EXCEPT
                          !.client_id = IF message.hasId THEN message.clientId ELSE None,
                          !.status = "Connected"],
                      RegisterMsg, sok)
    ELSE IF message.type = "registered"
    THEN [self EXCEPT !.status = "Registered - Ready"]
    ELSE IF message.type = "text"
    THEN simulate_typing([self EXCEPT !.messages_received = @ + 1], ydotool,
                         IF message.hasContent THEN message.content ELSE <<>>,
                         tout)
    ELSE self

(* loop_body counting every frame, parsed or not, as a message *)
loop_body_counts_unparsed(self, ydotool, frame, tout, sok) ==
    CASE frame.kind = "invalid_json" ->
             [self EXCEPT !.last_error = Err("Invalid JSON received"),
                          !.messages_received = Min(@ + 1, MaxMsgs)]
      [] frame.kind \in {"undecodable", "non_object"} ->
             [self EXCEPT !.last_error = Err("Handler error")]
      [] OTHER -> handle_message(self, ydotool, frame, tout, sok)

(* loop_body without the except Exception clause: the error of a frame that *)
(* is not an object leaves the loop and ends the connection                  *)
loop_body_handler_error_escapes(self, ydotool, frame, tout, sok) ==
    CASE frame.kind = "invalid_json" ->
             [self EXCEPT !.last_error = Err("Invalid JSON received")]
      [] frame.kind \in {"undecodable", "non_object"} ->
             [self EXCEPT !.last_error = Err("Handler error"),
                          !.status = "Connection Error",
                          !.ws = FALSE]
      [] OTHER -> handle_message(self, ydotool, frame, tout, sok)

(* the body of the message loop of connect *)
loop_body(self, ydotool, frame, tout, sok) ==
    CASE frame.kind = "invalid_json" ->
             [self EXCEPT !.last_error = Err("Invalid JSON received")]
      [] frame.kind \in {"undecodable", "non_object"} ->
             [self EXCEPT !.last_error = Err("Handler error")]
      [] OTHER -> handle_message(self, ydotool, frame, tout, sok)

(* --------------------------- Init -------------------------------------- *)
Init ==
    /\ use_ydotool \in BOOLEAN
    /\ ws = FALSE
    /\ client_id = None
    /\ status = "Initializing..."
    /\ connection_attempts = 0
    /\ messages_received = 0
    /\ last_text = <<>>
    /\ last_error = NoError
    /\ tool_status = ""
    /\ pc = "start"
    /\ remaining = 0
    /\ sent = <<>>
    /\ type_calls = 0
    /\ last_argv = NoArgv
    /\ connected_seen = FALSE
    /\ ticks = 0
    /\ shown = generate_display("Initializing...", None)
    /\ last = Step("init")

(* --------------------------- actions ----------------------------------- *)
(* check_dependencies reporting the tool as available when it is not found *)
check_dependencies_ignores_missing(probe) ==
    /\ pc = "start"
    /\ tool_status' = IF probe = "not_found" THEN "not found" ELSE "available"
    /\ last_error' = IF probe = "not_found" THEN Err("Please install tool") ELSE last_error
    /\ pc' = "loop"
    /\ last' = [Step("check_dependencies") EXCEPT !.outcome = probe]
    /\ UNCHANGED <<use_ydotool, ws, client_id, status, connection_attempts,
                   messages_received, last_text, remaining, sent, type_calls, last_argv,
                   connected_seen, ticks, shown>>

(* run: the preflight check; probe is what the version query does *)
check_dependencies(probe) ==
    /\ pc = "start"
    /\ tool_status' = IF probe = "not_found" THEN "not found" ELSE "available"
    /\ last_error' = IF probe = "not_found" THEN Err("Please install tool") ELSE last_error
    /\ pc' = IF probe = "not_found" THEN "aborted" ELSE "loop"
    /\ last' = [Step("check_dependencies") EXCEPT !.outcome = probe]
    /\ UNCHANGED <<use_ydotool, ws, client_id, status, connection_attempts,
                   messages_received, last_text, remaining, sent, type_calls, last_argv,
                   connected_seen, ticks, shown>>

(* connect_begin starting every connection with a fresh message counter *)
connect_begin_resets_counter ==
    /\ pc = "loop"
    /\ connection_attempts < MaxAttempts
    /\ connection_attempts' = connection_attempts + 1
    /\ status' = "Connecting..."
    /\ last_error' = NoError
    /\ shown' = generate_display("Connecting...", client_id)
    /\ ws' = FALSE
    /\ client_id' = None
    /\ messages_received' = 0
    /\ pc' = "establishing"
    /\ last' = Step("connect_begin")
    /\ UNCHANGED <<use_ydotool, last_text, tool_status,
                   remaining, sent, type_calls, last_argv, connected_seen, ticks>>

(* connect, up to the await of websockets.connect *)
connect_begin ==
    /\ pc = "loop"
    /\ connection_attempts < MaxAttempts
    /\ connection_attempts' = connection_attempts + 1
    /\ status' = "Connecting..."
    /\ last_error' = NoError
    /\ shown' = generate_display("Connecting...", client_id)
    /\ ws' = FALSE
    /\ client_id' = None
    /\ pc' = "establishing"
    /\ last' = Step("connect_begin")
    /\ UNCHANGED <<use_ydotool, messages_received, last_text, tool_status,
                   remaining, sent, type_calls, last_argv, connected_seen, ticks>>

(* connect_established registering without waiting for a connected frame *)
connect_established_registers ==
    /\ pc = "establishing"
    /\ ws' = TRUE
    /\ status' = "Connected"
    /\ shown' = generate_display("Connected", client_id)
    /\ sent' = <<RegisterMsg>>
    /\ connected_seen' = FALSE
    /\ pc' = "receiving"
    /\ last' = Step("connect_established")
    /\ UNCHANGED <<use_ydotool, client_id, connection_attempts,
                   messages_received, last_text, last_error, tool_status,
                   remaining, type_calls, last_argv, ticks>>

(* websockets.connect returned a channel *)
connect_established ==
    /\ pc = "establishing"
    /\ ws' = TRUE
    /\ status' = "Connected"
    /\ shown' = generate_display("Connected", client_id)
    /\ sent' = <<>>
    /\ connected_seen' = FALSE
    /\ pc' = "receiving"
    /\ last' = Step("connect_established")
    /\ UNCHANGED <<use_ydotool, client_id, connection_attempts,
                   messages_received, last_text, last_error, tool_status,
                   remaining, type_calls, last_argv, ticks>>

(* what websockets.connect raises: ConnectionRefusedError, another OSError,  *)
(* socket.gaierror (an OSError), TimeoutError where it is an OSError         *)
(* (Python 3.11 and later), asyncio.TimeoutError where it is not, or another *)
(* exception                                                                 *)
FailKinds == {"refused", "oserror", "gaierror", "timeout_oserror", "timeout", "other"}

DetailLens == {1, ErrLimit, ErrLimit + 1}

(* the except clauses of connect for a failed websockets.connect *)
FailStatus(kind) ==
    CASE kind \in {"refused", "oserror", "gaierror", "timeout_oserror"} -> "Connection Refused"
      [] kind = "timeout" -> "Timeout"
      [] OTHER -> "Connection Error"

FailError(kind, n) ==
    CASE kind = "refused" -> Err("Server not running - start relay server first")
      [] kind \in {"oserror", "gaierror", "timeout_oserror"} -> Err("Cannot connect to server")
      [] kind = "timeout" -> Err("Connection timeout - server not responding")
      [] OTHER -> [text |-> "", detail |-> Min(n, ErrLimit)]

connect_failed(kind, n) ==
    /\ pc = "establishing"
    /\ kind # "other" => n = 1
    /\ status' = FailStatus(kind)
    /\ last_error' = FailError(kind, n)
    /\ ws' = FALSE
    /\ pc' = "returned"
    /\ last' = [Step("connect_failed") EXCEPT !.outcome = kind]
    /\ UNCHANGED <<use_ydotool, client_id, connection_attempts,
                   messages_received, last_text, tool_status, remaining, sent,
                   type_calls, last_argv, connected_seen, ticks, shown>>

(* one iteration of the message loop *)
receive_message(frame, tout, sok) ==
    /\ pc = "receiving"
    /\ frame.type = "text" => messages_received < MaxMsgs
    /\ frame.type = "connected" => Len(sent) < MaxSent
    /\ frame.type # "text" => tout = "ok"
    /\ frame.type # "connected" => sok
    /\ LET r == loop_body(Self, use_ydotool, frame, tout, sok)
           interrupted == r.raised = "KeyboardInterrupt"
       IN  /\ client_id' = r.client_id
           /\ messages_received' = r.messages_received
           /\ last_text' = r.last_text
           /\ last_error' = r.last_error
           /\ sent' = r.sent
           /\ type_calls' = r.type_calls
           /\ last_argv' = r.last_argv
           /\ status' = IF interrupted THEN "Shutting down..." ELSE r.status
           /\ ws' = IF interrupted THEN FALSE ELSE r.ws
           /\ pc' = IF interrupted THEN "exited" ELSE "receiving"
           /\ shown' = generate_display(status', client_id')
           /\ last' = [op |-> "receive_message", kind |-> frame.kind,
                       type |-> frame.type, id |-> frame.clientId,
                       text |-> frame.content,
                       outcome |-> IF frame.type = "text" THEN tout
                                   ELSE IF frame.type = "connected"
                                   THEN (IF sok THEN "sent" ELSE "send_failed")
                                   ELSE "",
                       wellformed |-> frame \in ConnectedFrames \cup TextFrames \cup
                                        {RegisteredFrame, PongFrame}]
    /\ connected_seen' = (connected_seen \/ (frame.kind = "object" /\ frame.type = "connected"))
    /\ UNCHANGED <<use_ydotool, connection_attempts, tool_status, remaining, ticks>>

CloseKinds == {"ok", "error_reason", "error_no_reason", "error_lost"}

(* the channel closed: the message loop ends *)
connection_closed(kind) ==
    /\ pc = "receiving"
    /\ status' = IF kind = "ok" THEN status ELSE "Disconnected"
    /\ last_error' = CASE kind = "ok" -> last_error
                       [] kind = "error_reason" -> Err("Server closed: reason")
                       [] kind = "error_no_reason" -> Err("Server closed: no reason")
                       [] OTHER -> Err("Connection lost unexpectedly")
    /\ ws' = FALSE
    /\ pc' = "returned"
    /\ last' = [Step("connection_closed") EXCEPT !.outcome = kind]
    /\ sent' = <<>>
    /\ connected_seen' = FALSE
    /\ UNCHANGED <<use_ydotool, client_id, connection_attempts,
                   messages_received, last_text, tool_status, remaining,
                   type_calls, last_argv, ticks, shown>>

(* run_with_display after connect returned: first iteration of the countdown *)
countdown_start ==
    /\ pc = "returned"
    /\ remaining' = reconnect_delay
    /\ status' = ReconnectLabels[reconnect_delay]
    /\ shown' = generate_display(status', client_id)
    /\ ticks' = 0
    /\ pc' = "sleeping"
    /\ last' = Step("countdown_start")
    /\ UNCHANGED <<use_ydotool, ws, client_id, connection_attempts,
                   messages_received, last_text, last_error, tool_status, sent,
                   type_calls, last_argv, connected_seen>>

(* countdown_tick ending the countdown one iteration early *)
countdown_tick_stops_early ==
    /\ pc = "sleeping"
    /\ ticks' = ticks + 1
    /\ IF remaining > 2
       THEN /\ remaining' = remaining - 1
            /\ status' = ReconnectLabels[remaining - 1]
            /\ shown' = generate_display(status', client_id)
            /\ pc' = "sleeping"
       ELSE /\ pc' = "loop"
            /\ UNCHANGED <<remaining, status, shown>>
    /\ last' = Step("countdown_tick")
    /\ UNCHANGED <<use_ydotool, ws, client_id, connection_attempts,
                   messages_received, last_text, last_error, tool_status, sent,
                   type_calls, last_argv, connected_seen>>

(* asyncio.sleep(1) returned: next iteration of the countdown, or its end *)
countdown_tick ==
    /\ pc = "sleeping"
    /\ ticks' = ticks + 1
    /\ IF remaining > 1
       THEN /\ remaining' = remaining - 1
            /\ status' = ReconnectLabels[remaining - 1]
            /\ shown' = generate_display(status', client_id)
            /\ pc' = "sleeping"
       ELSE /\ pc' = "loop"
            /\ UNCHANGED <<remaining, status, shown>>
    /\ last' = Step("countdown_tick")
    /\ UNCHANGED <<use_ydotool, ws, client_id, connection_attempts,
                   messages_received, last_text, last_error, tool_status, sent,
                   type_calls, last_argv, connected_seen>>

(* SIGINT while the control path is suspended in an await: asyncio cancels  *)
(* the task, CancelledError passes every except clause, main prints and     *)
(* returns                                                                   *)
shutdown_signal ==
    /\ pc \in {"establishing", "receiving", "sleeping"}
    /\ ws' = FALSE
    /\ pc' = "exited"
    /\ last' = [Step("shutdown_signal") EXCEPT !.outcome = pc]
    /\ UNCHANGED <<use_ydotool, client_id, status, connection_attempts,
                   messages_received, last_text, last_error, tool_status,
                   remaining, sent, type_calls, last_argv, connected_seen, ticks, shown>>

Next ==
    \/ \E probe \in {"ok", "not_found", "nonzero"} : check_dependencies(probe)
    \/ connect_begin
    \/ connect_established
    \/ \E kind \in FailKinds, n \in DetailLens : connect_failed(kind, n)
    \/ \E frame \in Frames, tout \in TypingOutcomes, sok \in BOOLEAN :
           receive_message(frame, tout, sok)
    \/ \E kind \in CloseKinds : connection_closed(kind)
    \/ countdown_start
    \/ countdown_tick
    \/ shutdown_signal

Spec == Init /\ [][Next]_vars

(* the control path is not suspended for ever in straight-line code or in   *)
(* asyncio.sleep(1): the countdown runs and the next connect begins         *)
FairSpec ==
    /\ Spec
    /\ WF_vars(countdown_start)
    /\ WF_vars(countdown_tick)
    /\ WF_vars(connect_begin)

(* ------------------------- helpers of the claims ----------------------- *)
RegisterCount(msgs) == Cardinality({i \in 1..Len(msgs) : msgs[i].type = "register"})

Received(type) == last.op = "receive_message" /\ last.kind = "object" /\ last.type = type

ReceivedNext(type) == last'.op = "receive_message" /\ last'.kind = "object" /\ last'.type = type

Malformed(step) == step.op = "receive_message" /\ step.kind \in {"invalid_json", "undecodable"}

(* ------------------------------ claims -------------------------------- *)

(* C1: on one channel the number of Register messages sent never exceeds 1 *)
C1_AtMostOneRegister == RegisterCount(sent) <= 1

(* C2: a Register is sent only by the dispatch of a connected frame, on an  *)
(* open channel; whenever a Register has been sent on the current channel a *)
(* connected frame was received on it before                                *)
C2_RegisterOnlyAfterConnected ==
    /\ [](Len(sent) > 0 => connected_seen)
    /\ [][Len(sent') > Len(sent) =>
            /\ ws
            /\ pc = "receiving"
            /\ ReceivedNext("connected")
            /\ sent' = Append(sent, RegisterMsg)]_vars

C2_Witness == Received("connected") /\ sent = <<RegisterMsg>> /\ connected_seen

(* C3: after the dispatch of a well-formed Connected{clientId: X} frame,     *)
(* clientId = X, status = Connected and exactly one Register has been sent   *)
(* since the channel was established                                         *)
C3_ConnectedExactlyOneRegister ==
    (Received("connected") /\ last.wellformed) =>
        /\ client_id = last.id
        /\ status = "Connected"
        /\ RegisterCount(sent) = 1

(* C4: a Text frame whose typing succeeds invokes the tool exactly once with *)
(* the content unchanged, adds exactly 1 to messagesReceived, leaves         *)
(* clientId, status and connectionAttempts alone, and for content of at most *)
(* 50 characters sets lastTypedText to the content                           *)
C4_TextTypedOnce ==
    [][(ReceivedNext("text") /\ last'.wellformed /\ last'.outcome = "ok") =>
          /\ type_calls' = type_calls + 1
          /\ last_argv'.text = last'.text
          /\ messages_received' = messages_received + 1
          /\ (Len(last'.text) <= 50 => last_text' = last'.text)
          /\ UNCHANGED <<client_id, status, connection_attempts>>]_vars

C4_Witness ==
    /\ Received("text") /\ last.wellformed /\ last.outcome = "ok"
    /\ Len(last.text) = 50
    /\ last_text = last.text
    /\ messages_received = 2

(* C5: after a successful typing lastTypedText is the content when it has at *)
(* most 50 characters, else its first 50 characters followed by the marker;  *)
(* it is never longer than 50 characters plus the marker                     *)
C5_LastTextTruncated ==
    /\ Len(last_text) <= 50 + Len(Ellipsis)
    /\ (Received("text") /\ last.wellformed /\ last.outcome = "ok") =>
           last_text = IF Len(last.text) <= 50
                       THEN last.text
                       ELSE [i \in 1..53 |-> IF i <= 50 THEN last.text[i] ELSE Dot]

C5_Witness ==
    /\ Received("text") /\ last.wellformed /\ last.outcome = "ok"
    /\ Len(last.text) > 50
    /\ Len(last_text) = 53

(* C6: a frame that does not parse leaves messagesReceived, clientId and     *)
(* status unchanged, sets lastError, types and sends nothing and keeps the   *)
(* loop on the same channel; the valid frame after it is dispatched          *)
(* normally, with connectionAttempts unchanged                               *)
C6_MalformedIsLocal ==
    /\ [][Malformed(last') =>
            /\ UNCHANGED <<messages_received, client_id, status, type_calls, last_argv, sent,
                           connection_attempts, last_text>>
            /\ last_error' # NoError
            /\ ws /\ ws'
            /\ pc' = "receiving"]_vars
    /\ [][(Malformed(last) /\ ReceivedNext("text") /\ last'.outcome = "ok") =>
            /\ messages_received' = messages_received + 1
            /\ type_calls' = type_calls + 1
            /\ last_argv'.text = last'.text
            /\ UNCHANGED <<connection_attempts, ws, pc>>]_vars
    /\ [][(Malformed(last) /\ ReceivedNext("registered")) =>
            /\ status' = "Registered - Ready"
            /\ UNCHANGED <<connection_attempts, ws, pc>>]_vars

C6_Witness ==
    /\ Received("text") /\ last.wellformed /\ last.outcome = "ok"
    /\ last_error = Err("Invalid JSON received")
    /\ messages_received = 1
    /\ connection_attempts = 1
    /\ ws

(* C7: the dispatch of a Pong frame or of a frame of an unrecognised type    *)
(* changes no session state, types nothing and sends nothing                 *)
C7_PongUnknownNoChange ==
    [][(ReceivedNext("pong") \/ ReceivedNext("foo")) =>
          UNCHANGED <<client_id, messages_received, status, last_text,
                      last_error, type_calls, last_argv, sent, connection_attempts, ws>>]_vars

C7_Witness ==
    /\ Received("foo")
    /\ client_id # None
    /\ status = "Registered - Ready"
    /\ messages_received > 0

(* C8: every return of connect is followed, absent a shutdown signal, by a   *)
(* new connection attempt; a refused connection sets the refused status; a   *)
(* new attempt starts only after 5 one-second ticks, whatever the number of  *)
(* attempts; connectionAttempts grows by exactly 1 per attempt and never     *)
(* decreases                                                                 *)
C8_ReconnectForever ==
    /\ []((last.op = "connect_failed" /\ last.outcome = "refused") =>
             (status = "Connection Refused" /\ pc = "returned"))
    /\ [][connection_attempts' # connection_attempts =>
            /\ connection_attempts' = connection_attempts + 1
            /\ last'.op = "connect_begin"
            /\ status' = "Connecting..."
            /\ (connection_attempts > 0 => (last.op = "countdown_tick" /\ ticks = 5))]_vars
    /\ [][last'.op = "connect_begin" => connection_attempts' = connection_attempts + 1]_vars
    /\ [](pc \notin {"start", "aborted", "exited"} =>
             (connection_attempts < MaxAttempts => ENABLED Next))
    /\ ((pc = "returned" /\ connection_attempts < MaxAttempts) ~>
            (last.op = "connect_begin" \/ pc = "exited"))

C8_Witness ==
    /\ connection_attempts = 3
    /\ last.op = "connect_failed" /\ last.outcome = "refused"
    /\ status = "Connection Refused"
    /\ ticks = 5

(* C9: a failed typing sets lastError, keeps lastTypedText, the channel, the *)
(* status and connectionAttempts, and the loop goes on with the next frame   *)
C9_TypingFailureIsLocal ==
    [][(ReceivedNext("text") /\ last'.outcome \in {"nonzero", "missing", "other"}) =>
          /\ last_error' # NoError
          /\ last_text' = last_text
          /\ ws /\ ws'
          /\ pc' = "receiving"
          /\ UNCHANGED <<status, connection_attempts, client_id>>]_vars

C9_Witness ==
    /\ Received("text") /\ last.outcome = "missing"
    /\ last_text # <<>>
    /\ last_error = Err("Unexpected error")
    /\ status = "Registered - Ready"
    /\ pc = "receiving" /\ ws

(* C10: a shutdown signal during the reconnect wait or the receive loop sets *)
(* status to ShuttingDown and ends the run loop; after it no attempt begins  *)
(* and status never changes                                                  *)
C10_ShutdownSetsStatus ==
    /\ []((pc = "exited" /\
            (last.op = "shutdown_signal" => last.outcome \in {"sleeping", "receiving"}))
             => status = "Shutting down...")
    /\ [][pc = "exited" => UNCHANGED <<status, connection_attempts, pc>>]_vars

(* C11: when the preflight check does not find the typing tool the run ends  *)
(* before any connection attempt: connectionAttempts stays 0, status never   *)
(* becomes Connecting, nothing is sent or typed and nothing happens after;   *)
(* when the tool is found, also when its version query exits non-zero, the   *)
(* run goes on to the connection loop                                        *)
C11_MissingToolAborts ==
    /\ [](pc = "aborted" =>
             /\ connection_attempts = 0
             /\ status = "Initializing..."
             /\ sent = <<>> /\ type_calls = 0 /\ ~ws
             /\ last.op = "check_dependencies" /\ last.outcome = "not_found")
    /\ [][pc # "aborted"]_vars
    /\ [][last'.op = "check_dependencies" =>
            /\ (last'.outcome = "not_found" => pc' = "aborted")
            /\ (last'.outcome \in {"ok", "nonzero"} => pc' = "loop")
            /\ connection_attempts' = 0 /\ pc = "start"]_vars
    /\ [][connection_attempts' # connection_attempts => pc = "loop"]_vars

C11_Witness ==
    /\ pc = "aborted"
    /\ last.op = "check_dependencies" /\ last.outcome = "not_found"
    /\ tool_status = "not found"
    /\ last_error # NoError

(* C12: for either tool and every content, also one that starts with '-',   *)
(* the tool is run with the arguments  type -- <content>: the content is     *)
(* one argument, unmodified, after the end-of-options separator              *)
C12_ArgvLiteralAfterSeparator ==
    /\ [](type_calls > 0 =>
             /\ last_argv.tool = (IF use_ydotool THEN "ydotool" ELSE "xdotool")
             /\ last_argv.pre = <<"type", "--">>)
    /\ [][ReceivedNext("text") =>
            last_argv'.text = (IF last'.wellformed THEN last'.text ELSE <<>>)]_vars

(* C13: while status is Connecting clientId is absent, in the object and in  *)
(* every display snapshot; every connection attempt sets status to           *)
(* Connecting, adds 1 to connectionAttempts and clears clientId; clientId is *)
(* set to a value only by the dispatch of a connected frame                  *)
C13_ClientIdAbsentWhileConnecting ==
    /\ [](status = "Connecting..." => client_id = None)
    /\ [](shown.status = "Connecting..." => shown.client_id = None)
    /\ [][last'.op = "connect_begin" =>
            /\ status' = "Connecting..."
            /\ connection_attempts' = connection_attempts + 1
            /\ client_id' = None]_vars
    /\ [][(client_id' # client_id /\ client_id' # None) => ReceivedNext("connected")]_vars

(* C14: whenever the message loop ends because the channel closed, whatever  *)
(* the kind of closure, status is Disconnected and lastError is set when     *)
(* connect returns, before the countdown begins                              *)
C14_ClosureSetsDisconnected ==
    /\ [](last.op = "connection_closed" =>
             /\ pc = "returned"
             /\ status = "Disconnected"
             /\ last_error # NoError)
    /\ [][(pc = "receiving" /\ pc' = "returned") => last'.op = "connection_closed"]_vars

(* C15: a failed channel establishment sets status by the kind of failure    *)
(* and lastError to a summary, then connect returns: refused gives the       *)
(* refused status, a timeout gives Timeout, a name-resolution failure is     *)
(* reported as such, any other failure gives Connection Error with a detail  *)
(* of at most 80 characters; no kind is reported under another kind's status *)
C15_FailureKindSetsStatus ==
    [](last.op = "connect_failed" =>
         /\ pc = "returned"
         /\ last_error # NoError
         /\ (last.outcome = "refused" => status = "Connection Refused")
         /\ (last.outcome \in {"timeout", "timeout_oserror"} => status = "Timeout")
         /\ (last.outcome = "gaierror" =>
                /\ status \notin {"Connection Refused", "Timeout"}
                /\ last_error = Err("Cannot resolve hostname"))
         /\ (last.outcome = "other" =>
                /\ status = "Connection Error"
                /\ last_error.detail <= 80)
         /\ (status = "Connection Refused" => last.outcome \in {"refused", "oserror"})
         /\ (status = "Timeout" => last.outcome \in {"timeout", "timeout_oserror"}))

(* C16: a frame of a recognised type that lacks its required field changes   *)
(* no state: a text frame without content does not count as a message and    *)
(* types nothing, a connected frame without clientId changes neither         *)
(* clientId nor status and sends no Register                                 *)
C16_MissingFieldIsUnknown ==
    [][(last'.op = "receive_message" /\ last'.kind = "object" /\ ~last'.wellformed
          /\ last'.type \in {"text", "connected"}) =>
          UNCHANGED <<messages_received, type_calls, last_argv, last_text,
                      client_id, status, sent, last_error>>]_vars

(* the states of the lifecycle of section 4.4 of the specification *)
Lifecycle(st) ==
    CASE st = "Initializing..." -> "Idle"
      [] st = "Connecting..." -> "Connecting"
      [] st = "Connected" -> "Connected"
      [] st = "Registered - Ready" -> "Registered"
      [] st \in {"Disconnected", "Connection Refused", "Timeout", "Connection Error"} -> "Failed"
      [] st = "Shutting down..." -> "ShuttingDown"
      [] OTHER -> "Waiting"

LifecyclePaths ==
    {<<"Idle", "Connecting">>, <<"Connecting", "Connected">>, <<"Connecting", "Failed">>,
     <<"Connected", "Registered">>, <<"Connected", "Failed">>, <<"Registered", "Failed">>,
     <<"Failed", "Waiting">>, <<"Waiting", "Waiting">>, <<"Waiting", "Connecting">>}
    \cup {<<k, "ShuttingDown">> : k \in {"Idle", "Connecting", "Connected", "Registered",
                                          "Failed", "Waiting"}}

(* C17: status changes only along the lifecycle Idle -> Connecting ->        *)
(* Connected -> Registered -> failure -> waiting -> Connecting; it never     *)
(* goes from Registered back to Connected; Registered is reached only after  *)
(* a connected frame was received and a Register sent on the connection, so  *)
(* clientId is set; the connected states are entered only from Connecting    *)
C17_StatusFollowsLifecycle ==
    /\ [][status' # status => <<Lifecycle(status), Lifecycle(status')>> \in LifecyclePaths]_vars
    /\ [](pc = "receiving" /\ status = "Registered - Ready" =>
             /\ connected_seen
             /\ RegisterCount(sent) >= 1
             /\ client_id # None)

C19_MessagesMonotonic ==
    /\ [][messages_received' >= messages_received]_vars
    /\ [][messages_received' # messages_received =>
            /\ messages_received' = messages_received + 1
            /\ ReceivedNext("text")
            /\ pc = "receiving"]_vars
    /\ [][last'.op # "receive_message" => messages_received' = messages_received]_vars

C19_Witness ==
    /\ last.op = "connect_begin"
    /\ connection_attempts = 2
    /\ messages_received = 2

HandlerError(step) == step.op = "receive_message" /\ step.kind \in {"non_object", "undecodable"}

(* C20: a frame that parses but is not an object, or whose handling raises,  *)
(* only sets lastError to a handler error: counters, clientId and status are *)
(* unchanged, nothing is typed or sent, the channel stays open and the next  *)
(* frame is dispatched; the message loop ends only by a closure of the       *)
(* channel or by a shutdown signal (also one that interrupts a typing)       *)
C20_HandlerErrorIsLocal ==
    /\ [][HandlerError(last') =>
            /\ last_error' = Err("Handler error")
            /\ UNCHANGED <<messages_received, client_id, status, type_calls,
                           last_argv, sent, last_text, connection_attempts>>
            /\ ws /\ ws'
            /\ pc' = "receiving"]_vars
    /\ [][(HandlerError(last) /\ ReceivedNext("text") /\ last'.outcome = "ok") =>
            /\ messages_received' = messages_received + 1
            /\ type_calls' = type_calls + 1
            /\ UNCHANGED <<connection_attempts, ws, pc>>]_vars
    /\ [][(pc = "receiving" /\ pc' # "receiving") =>
            \/ last'.op \in {"connection_closed", "shutdown_signal"}
            \/ (ReceivedNext("text") /\ last'.outcome = "interrupt")]_vars

C20_Witness ==
    /\ last.op = "receive_message" /\ last.kind = "non_object"
    /\ last_error = Err("Handler error")
    /\ status = "Registered - Ready"
    /\ client_id # None
    /\ messages_received > 0
    /\ pc = "receiving" /\ ws

====
